---- MODULE Spec2Model ----
(***************************************************************************)
(* Model of mapknowledge/apinatomy.py: the chain simplifier               *)
(* (nifstd.simplify), the graph normalizer (Apinatomy.deblob) and the      *)
(* connectivity extractor (Apinatomy.parse_connectivity) with the          *)
(* hierarchy resolvers it calls.                                           *)
(*                                                                         *)
(* An edge is a record [sub, pred, obj, meta]; meta is TRUE when the edge  *)
(* dict carries a 'meta' key.  A node is a record [id, topology].  Python's*)
(* None is the string "None" wherever a string or None may stand.          *)
(* Python exceptions are the status a call ends with.                      *)
(***************************************************************************)
EXTENDS Integers, Sequences, FiniteSets, TLC

None == "None"

\* ---------------------------------------------------------------- vocabulary
axon == "SAO:280355188"
dendrite == "SAO:420754792"
BAG == "apinatomy:BAG"
annotates == "apinatomy:annotates"
cloneOf == "apinatomy:cloneOf"
endsIn == "apinatomy:endsIn"
ontologyTerms == "apinatomy:ontologyTerms"
fasciculatesIn == "apinatomy:fasciculatesIn"
inheritedOntologyTerms == "apinatomy:inheritedOntologyTerms"
inheritedOntologyTerms_s == "apinatomy:inheritedOntologyTerms*"
inheritedExternal == "apinatomy:inheritedExternal"
inheritedExternal_s == "apinatomy:inheritedExternal*"
internalIn == "apinatomy:internalIn"
layerIn == "apinatomy:layerIn"
lyphs == "apinatomy:lyphs"
next == "apinatomy:next"
next_s == "apinatomy:next*"
references == "apinatomy:references"
topology_s == "apinatomy:topology*"
levels == "apinatomy:levels"
target == "apinatomy:target"
rootOf == "apinatomy:rootOf"
conveyingLyph == "apinatomy:conveyingLyph"
topology == "apinatomy:topology"
conveys == "apinatomy:conveys"
source == "apinatomy:source"
sourceOf == "apinatomy:sourceOf"
nextChainStartLevels == "apinatomy:nextChainStartLevels"

\* The members of EXCLUDED_LAYERS (None first, as in the tuple).
EXCLUDED_LAYERS ==
    { None, "UBERON:0000010", "UBERON:0000178", "UBERON:0000468",
      "UBERON:0001017", "UBERON:0001359", "UBERON:0002318",
      "UBERON:0003714", "UBERON:0005844", "UBERON:0016549" }

\* ------------------------------------------------------------------- helpers
\* A name for a value: F applied to v, as a local variable assigned once.
Bind(v, F(_)) == F(v)

Range(s) == { s[i] : i \in 1..Len(s) }

Last(s) == s[Len(s)]

InSeq(x, s) == \E i \in 1..Len(s) : s[i] = x

\* Python's list.index, 0-based.
IndexOf(s, x) == (CHOOSE i \in 1..Len(s) : s[i] = x /\ \A j \in 1..(i-1) : s[j] # x) - 1

\* Python's list.count.
CountOf(s, x) == Cardinality({ i \in 1..Len(s) : s[i] = x })

\* First occurrences, in order (the keys of a dict filled in this order).
RECURSIVE Dedup(_)
Dedup(s) ==
    IF s = <<>> THEN <<>>
    ELSE LET r == Dedup(SubSeq(s, 1, Len(s) - 1))
         IN  IF InSeq(Last(s), r) THEN r ELSE Append(r, Last(s))

\* [f(x) for x in s]
MapSeq(s, f(_)) == [ i \in 1..Len(s) |-> f(s[i]) ]

\* The concatenation of a sequence of sequences.
RECURSIVE Flatten(_)
Flatten(ss) == IF ss = <<>> THEN <<>> ELSE Head(ss) \o Flatten(Tail(ss))

\* s repeated k times.
RECURSIVE Repeat(_, _)
Repeat(s, k) == IF k <= 0 THEN <<>> ELSE s \o Repeat(s, k - 1)

\* Python's list.remove for a value the list holds: the first occurrence goes.
RemoveFirst(s, x) ==
    LET i == IndexOf(s, x) + 1
    IN  SubSeq(s, 1, i - 1) \o SubSeq(s, i + 1, Len(s))

\* Python's str order on the strings of the model: the ids and predicates in
\* sorted() order.
StrOrder ==
    << "PMID:1",
       "SAO:280355188",
       "SAO:420754792",
       "UBERON:0000948",
       "UBERON:0001017",
       "UBERON:0002078",
       "UBERON:0002084",
       "a",
       "apinatomy:BAG",
       "apinatomy:annotates",
       "apinatomy:cloneOf",
       "apinatomy:conveyingLyph",
       "apinatomy:conveys",
       "apinatomy:endsIn",
       "apinatomy:fasciculatesIn",
       "apinatomy:inheritedExternal",
       "apinatomy:inheritedExternal*",
       "apinatomy:inheritedOntologyTerms",
       "apinatomy:inheritedOntologyTerms*",
       "apinatomy:internalIn",
       "apinatomy:layerIn",
       "apinatomy:levels",
       "apinatomy:lyphs",
       "apinatomy:next",
       "apinatomy:next*",
       "apinatomy:nextChainStartLevels",
       "apinatomy:ontologyTerms",
       "apinatomy:references",
       "apinatomy:rootOf",
       "apinatomy:source",
       "apinatomy:sourceOf",
       "apinatomy:target",
       "apinatomy:topology",
       "apinatomy:topology*",
       "b",
       "c",
       "d",
       "ilxtr:neuron-1",
       "l",
       "m",
       "n",
       "t",
       "u",
       "x",
       "y",
       "z" >>

OrdOf(order) == [ s \in Range(order) |-> IndexOf(order, s) ]

Ord == OrdOf(StrOrder)

StrLess(a, b) == Ord[a] < Ord[b]

\* Python's order on lists (and tuples) of strings.
RECURSIVE SeqLess(_, _)
SeqLess(p, q) ==
    IF p = <<>> THEN q # <<>>
    ELSE IF q = <<>> THEN FALSE
    ELSE IF Head(p) = Head(q) THEN SeqLess(Tail(p), Tail(q))
    ELSE StrLess(Head(p), Head(q))

\* sorted(S) for a set of lists of strings.
RECURSIVE SortedPaths(_)
SortedPaths(S) ==
    IF S = {} THEN <<>>
    ELSE Bind(CHOOSE p \in S : \A q \in S \ {p} : SeqLess(p, q),
              LAMBDA m : <<m>> \o SortedPaths(S \ {m}))

\* --------------------------------------------------------------------- edges
Edge(s, p, o) == [ sub |-> s, pred |-> p, obj |-> o, meta |-> FALSE ]

MetaEdge(s, p, o) == [ sub |-> s, pred |-> p, obj |-> o, meta |-> TRUE ]

\* nifstd.pred(edge, match): the comparison, or the predicate itself (a
\* non-empty string, so true where it is tested) when match is None.
pred(e, match) == IF match # None THEN e.pred = match ELSE TRUE

\* c.pop('meta')
PopMeta(e) == [ e EXCEPT !.meta = FALSE ]

\* '-'.join(predicates)
RECURSIVE JoinPreds(_)
JoinPreds(ps) ==
    IF Len(ps) = 1 THEN ps[1] ELSE ps[1] \o "-" \o JoinPreds(Tail(ps))

NoIndex == 0 - 1

\* nifstd.listIn: the 0-based start of maybe_contained in container, or None
\* (NoIndex).
RECURSIVE listIn(_, _, _)
listIn(container, maybe_contained, strict) ==
    LET lc == Len(container)
        lmc == Len(maybe_contained)
    IN  IF lc > lmc \/ (~strict /\ lc = lmc)
        THEN LET z == maybe_contained[1]
             IN  IF InSeq(z, container)
                 THEN LET substart == IndexOf(container, z)
                          subcontained == Tail(maybe_contained)
                          ssp1 == substart + 1
                          subcontainer == SubSeq(container, ssp1 + 1, lc)
                      IN  IF subcontained = <<>> THEN substart
                          ELSE LET maybe == listIn(subcontainer, subcontained, FALSE)
                               IN  IF maybe = NoIndex \/ maybe > 0
                                   THEN LET again == listIn(subcontainer, maybe_contained, FALSE)
                                        IN  IF again # NoIndex THEN ssp1 + again ELSE NoIndex
                                   ELSE substart
                 ELSE NoIndex
        ELSE NoIndex

\* ------------------------------------------------------------- nifstd.simplify
\* Iterating the rdflib.Graph the candidate edges were added to: the triples
\* (s, p, o) without repeats, by subject, then predicate, then object, each in
\* the order it first came.
Triples(cands) ==
    LET subs == Dedup(MapSeq(cands, LAMBDA e : e.sub))
        predsOf(s) == Dedup(MapSeq(SelectSeq(cands, LAMBDA e : e.sub = s),
                                   LAMBDA e : e.pred))
        objsOf(s, p) == Dedup(MapSeq(SelectSeq(cands, LAMBDA e : e.sub = s /\ e.pred = p),
                                     LAMBDA e : e.obj))
    IN  Flatten(MapSeq(subs, LAMBDA s :
            Flatten(MapSeq(predsOf(s), LAMBDA p :
                MapSeq(objsOf(s, p), LAMBDA o : <<s, p, o>>)))))

\* The nodes of the multidigraph, in the order add_edge(s, o, key=p) made them.
NxNodes(tr) == Dedup(Flatten(MapSeq(tr, LAMBDA t : <<t[1], t[3]>>)))

\* G.edges(n, keys=True): by neighbour in adjacency order, then by key.
OutEdges(tr, n) ==
    LET nbrs == Dedup(MapSeq(SelectSeq(tr, LAMBDA t : t[1] = n), LAMBDA t : t[3]))
    IN  Flatten(MapSeq(nbrs, LAMBDA v : SelectSeq(tr, LAMBDA t : t[1] = n /\ t[3] = v)))

Succ(tr, n) == { t[3] : t \in { u \in Range(tr) : u[1] = n } }

\* The weakly connected component that holds the nodes S.
RECURSIVE WeakComp(_, _)
WeakComp(tr, S) ==
    LET S2 == S \cup { t[3] : t \in { u \in Range(tr) : u[1] \in S } }
                \cup { t[1] : t \in { u \in Range(tr) : u[3] \in S } }
    IN  IF S2 = S THEN S ELSE WeakComp(tr, S2)

\* list(nx.weakly_connected_components(nxg)): one component per node not seen
\* before, in node order.
RECURSIVE ComponentsFrom(_, _, _)
ComponentsFrom(tr, nodes, seen) ==
    IF nodes = <<>> THEN <<>>
    ELSE IF Head(nodes) \in seen THEN ComponentsFrom(tr, Tail(nodes), seen)
    ELSE LET c == WeakComp(tr, {Head(nodes)})
         IN  <<c>> \o ComponentsFrom(tr, Tail(nodes), seen \cup c)

weakly_connected_components(tr) == ComponentsFrom(tr, NxNodes(tr), {})

\* The nodes reached from S along one or more edges.
RECURSIVE Descendants(_, _)
Descendants(tr, S) ==
    LET S2 == S \cup UNION { Succ(tr, n) : n \in S }
    IN  IF S2 = S THEN S ELSE Descendants(tr, S2)

\* nx.topological_sort raises NetworkXUnfeasible on a component with a
\* directed cycle (a self loop included).
HasCycle(tr, c) == \E n \in c : n \in Descendants(tr, Succ(tr, n))

\* The simple paths of k nodes within component c, as node lists.
RECURSIVE SimplePaths(_, _, _)
SimplePaths(tr, c, k) ==
    IF k = 1 THEN { <<n>> : n \in c }
    ELSE UNION { { Append(p, m) : m \in Succ(tr, Last(p)) \ Range(p) }
                 : p \in SimplePaths(tr, c, k - 1) }

\* How often nx.all_simple_paths yields the node list p over the ends: once per
\* entry of ends equal to its last node, times once per choice of parallel edges.
RECURSIVE ParallelChoices(_, _)
ParallelChoices(tr, p) ==
    IF Len(p) < 2 THEN 1
    ELSE Cardinality({ t \in Range(tr) : t[1] = p[1] /\ t[3] = p[2] })
         * ParallelChoices(tr, Tail(p))

PathCount(tr, ends, p) == CountOf(ends, Last(p)) * ParallelChoices(tr, p)

NoZap == [ status |-> "ok", add |-> <<>>, rem |-> <<>> ]

\* nifstd.zap: the synthetic edge to append and the edges to remove later.
zap(ordered_nodes, predicates, oe2) ==
    IF ordered_nodes = <<>> THEN [ status |-> "IndexError", add |-> <<>>, rem |-> <<>> ]
    ELSE [ status |-> "ok",
           add |-> << Edge(ordered_nodes[1], JoinPreds(predicates), Last(ordered_nodes)) >>,
           rem |-> MapSeq(oe2, LAMBDA t : Edge(t[1], t[2], t[3])) ]

\* The body of `for path in sorted(paths)` for one path.
ZapPath(tr, coll, path) ==
    Bind(Flatten(MapSeq(path, LAMBDA n :
             SelectSeq(OutEdges(tr, n), LAMBDA t : InSeq(t[3], path)))),
         LAMBDA oe2 :
    Bind(MapSeq(oe2, LAMBDA t : t[2]),
         LAMBDA predicates :
    IF predicates = coll THEN zap(path, predicates, oe2)
    ELSE Bind(listIn(predicates, coll, TRUE),
              LAMBDA sublist_start :
         IF sublist_start = NoIndex THEN NoZap
         ELSE LET i == sublist_start
                  j == sublist_start + Len(coll)
                  npath == SubSeq(path, sublist_start + 1,
                                  IF sublist_start + Len(coll) + 1 < Len(path)
                                  THEN sublist_start + Len(coll) + 1 ELSE Len(path))
              IN  zap(npath, SubSeq(predicates, i + 1, j), SubSeq(oe2, i + 1, j)))))

\* One component of one chain: the zaps of its paths in sorted order, each path
\* as often as it is enumerated.
ZapComponent(tr, coll, ends, c) ==
    IF HasCycle(tr, c) THEN << [ status |-> "NetworkXUnfeasible", add |-> <<>>, rem |-> <<>> ] >>
    ELSE Flatten(MapSeq(
             SortedPaths({ p \in SimplePaths(tr, c, Len(coll) + 1) : InSeq(Last(p), ends) }),
             LAMBDA p : Repeat(<< ZapPath(tr, coll, p) >>, PathCount(tr, ends, p))))

\* The first status that is not "ok" among zs, or "ok".
FirstError(zs) ==
    IF \E i \in 1..Len(zs) : zs[i].status # "ok"
    THEN zs[CHOOSE i \in 1..Len(zs) : zs[i].status # "ok" /\ \A k \in 1..(i-1) : zs[k].status = "ok"].status
    ELSE "ok"

\* One iteration of `for coll in collapse`. st = [status, edges, to_remove].
SimplifyChain(st, coll) ==
    IF st.status # "ok" THEN st
    ELSE Bind(MapSeq(st.edges, LAMBDA e : IF e.pred \in Range(coll) THEN PopMeta(e) ELSE e),
              LAMBDA popped :
         Bind(SelectSeq(popped, LAMBDA e : e.pred \in Range(coll)),
              LAMBDA candidates :
         IF candidates = <<>> THEN st
         ELSE Bind(Triples(candidates),
                   LAMBDA tr :
              Bind(MapSeq(SelectSeq(candidates, LAMBDA e : e.pred = Last(coll)),
                          LAMBDA e : e.obj),
                   LAMBDA ends :
              Bind(Flatten(MapSeq(weakly_connected_components(tr),
                                  LAMBDA c : ZapComponent(tr, coll, ends, c))),
                   LAMBDA zs :
              IF FirstError(zs) # "ok"
              THEN [ st EXCEPT !.status = FirstError(zs) ]
              ELSE [ status |-> "ok",
                     edges |-> popped \o Flatten(MapSeq(zs, LAMBDA z : z.add)),
                     to_remove |-> st.to_remove \o Flatten(MapSeq(zs, LAMBDA z : z.rem)) ])))))

\* for r in to_remove: if r in blob['edges']: blob['edges'].remove(r)
RECURSIVE RemoveAll(_, _)
RemoveAll(edges, to_remove) ==
    IF to_remove = <<>> THEN edges
    ELSE RemoveAll(IF InSeq(Head(to_remove), edges)
                   THEN RemoveFirst(edges, Head(to_remove)) ELSE edges,
                   Tail(to_remove))

\* The loop over the chains with the removals of a chain made before the next
\* chain is processed.
RECURSIVE SimplifyChains_remove_between(_, _)
SimplifyChains_remove_between(st, collapse) ==
    IF collapse = <<>> THEN st
    ELSE SimplifyChains_remove_between(
             Bind(SimplifyChain(st, Head(collapse)),
                  LAMBDA s : IF s.status # "ok" THEN s
                             ELSE [ status |-> "ok",
                                    edges |-> RemoveAll(s.edges, s.to_remove),
                                    to_remove |-> <<>> ]),
             Tail(collapse))

\* for coll in collapse: one iteration after the other.
RECURSIVE SimplifyChains(_, _)
SimplifyChains(st, collapse) ==
    IF collapse = <<>> THEN st
    ELSE SimplifyChains(SimplifyChain(st, Head(collapse)), Tail(collapse))

\* nifstd.simplify(collapse, blob): [status, edges].
simplify(collapse, edges) ==
    Bind(SimplifyChains([ status |-> "ok", edges |-> edges, to_remove |-> <<>> ], collapse),
         LAMBDA st :
    IF st.status # "ok" THEN [ status |-> st.status, edges |-> st.edges ]
    ELSE [ status |-> "ok", edges |-> RemoveAll(st.edges, st.to_remove) ])

\* ------------------------------------------------------------ Apinatomy.deblob
\* Apinatomy.getiot: the predicate of the first inheritedExternal or
\* inheritedOntologyTerms edge, or None.
getiot(edges) ==
    LET hits == SelectSeq(edges, LAMBDA e : e.pred \in {inheritedExternal, inheritedOntologyTerms})
    IN  IF hits = <<>> THEN None ELSE hits[1].pred

\* The composite predicate each caller of getiot derives from it.
iot_s(iot_predicate) ==
    IF iot_predicate = inheritedOntologyTerms THEN inheritedOntologyTerms_s
    ELSE inheritedExternal_s

\* deblob without its first statement.
LevelsFilter_keep_all(edges) == edges

\* The first statement of deblob: a levels edge stays unless its object is the
\* object of a next edge.
LevelsFilter(edges) ==
    SelectSeq(edges, LAMBDA e :
        ~ pred(e, levels)
        \/ (pred(e, levels)
            /\ ~ \E i \in 1..Len(edges) : edges[i].obj = e.obj /\ pred(edges[i], next)))

\* The six chains handed to nifstd.simplify.
CollapseChains(iot_predicate) ==
    << <<target, rootOf, levels>>,
       <<conveyingLyph, topology>>,
       <<conveys, source, sourceOf>>,
       <<conveys, target, sourceOf>>,
       <<cloneOf, iot_predicate>>,
       <<conveyingLyph, iot_predicate>> >>

\* The renaming ifs of the loop over the edges, in their order.
RenamePred(p, iot_predicate) ==
    Bind(IF p = nextChainStartLevels THEN next ELSE p,
         LAMBDA p1 :
    Bind(IF p1 \in { JoinPreds(<<target, rootOf, levels>>),
                     JoinPreds(<<conveys, source, sourceOf>>),
                     JoinPreds(<<conveys, target, sourceOf>>) }
         THEN next_s ELSE p1,
         LAMBDA p2 :
    Bind(IF p2 = JoinPreds(<<conveyingLyph, topology>>) THEN topology_s ELSE p2,
         LAMBDA p3 :
    IF p3 \in { conveyingLyph \o "-" \o iot_predicate, cloneOf \o "-" \o iot_predicate }
    THEN iot_s(iot_predicate) ELSE p3)))

\* nindex[sub]['topology'] = obj for every topology* edge, in edge order: the
\* last one stays.
MoveTopology(nodes, edges) ==
    MapSeq(nodes, LAMBDA n :
        LET tops == SelectSeq(edges, LAMBDA e : e.pred = topology_s /\ e.sub = n.id)
        IN  IF tops = <<>> THEN n ELSE [ n EXCEPT !.topology = Last(tops).obj ])

NodeIds(nodes) == { nodes[i].id : i \in 1..Len(nodes) }

\* sekey: (predicate is not ontologyTerms, predicate, subject, object).
sekey(e) ==
    << IF e.pred # ontologyTerms THEN 1 ELSE 0, Ord[e.pred], Ord[e.sub], Ord[e.obj] >>

RECURSIVE KeyLess(_, _)
KeyLess(a, b) ==
    IF a = <<>> THEN FALSE
    ELSE IF Head(a) = Head(b) THEN KeyLess(Tail(a), Tail(b))
    ELSE Head(a) < Head(b)

\* DedupSort without the set: 'meta' dropped, every copy kept, sorted by sekey.
DedupSort_keep_copies(edges) ==
    SortSeq(MapSeq(edges, PopMeta), LAMBDA a, b : KeyLess(sekey(a), sekey(b)))

\* The set of (sub, pred, obj) without 'meta', sorted by sekey.
DedupSort(edges) ==
    SortSeq(Dedup(MapSeq(edges, PopMeta)), LAMBDA a, b : KeyLess(sekey(a), sekey(b)))

\* The two filters under `if remove_converge`: the first names `top`, which no
\* scope defines, so evaluating its condition for the first edge raises
\* NameError; on an empty edge list neither condition is evaluated.
RemoveConverge(edges) ==
    IF edges # <<>> THEN [ status |-> "NameError", edges |-> edges ]
    ELSE [ status |-> "ok",
           edges |-> SelectSeq(edges, LAMBDA e : ~ (e.obj = axon \/ e.obj = dendrite)) ]

\* Apinatomy.deblob(blob, remove_converge): [status, edges, nodes], the blob as
\* the call leaves it.
deblob(blob, remove_converge) ==
    Bind(getiot(blob.edges),
         LAMBDA iot_predicate :
    Bind(simplify(CollapseChains(iot_predicate), LevelsFilter(blob.edges)),
         LAMBDA simplified :
    IF simplified.status # "ok"
    THEN [ status |-> simplified.status, edges |-> simplified.edges, nodes |-> blob.nodes ]
    ELSE Bind(MapSeq(simplified.edges, LAMBDA e :
                  [ e EXCEPT !.pred = RenamePred(e.pred, iot_predicate) ]),
              LAMBDA renamed :
         IF \E i \in 1..Len(renamed) :
                renamed[i].pred = topology_s /\ renamed[i].sub \notin NodeIds(blob.nodes)
         THEN [ status |-> "KeyError", edges |-> renamed, nodes |-> blob.nodes ]
         ELSE Bind(IF remove_converge THEN RemoveConverge(renamed)
                   ELSE [ status |-> "ok", edges |-> renamed ],
                   LAMBDA kept :
              IF kept.status # "ok"
              THEN [ status |-> kept.status, edges |-> renamed,
                     nodes |-> MoveTopology(blob.nodes, renamed) ]
              ELSE Bind(DedupSort(kept.edges),
                        LAMBDA edges :
                   [ status |-> "ok",
                     edges |-> edges,
                     nodes |-> SelectSeq(MoveTopology(blob.nodes, renamed), LAMBDA n :
                                   \E i \in 1..Len(edges) :
                                       n.id \in { edges[i].sub, edges[i].obj }) ])))))

\* -------------------------------------------------------- hierarchy resolvers
\* Apinatomy.isLayer(blob, match): some layerIn edge leaves match.
isLayer(blob, match) ==
    \E i \in 1..Len(blob.edges) : blob.edges[i].sub = match /\ pred(blob.edges[i], layerIn)

\* The test the resolvers share: an ontologyTerms edge, or one that
\* nifstd.pred matches against iot_predicate or the composite predicate.
IsTermEdge(e, iot_predicate) ==
    pred(e, ontologyTerms) \/ pred(e, iot_predicate) \/ pred(e, iot_s(iot_predicate))

IsContainment(e) ==
    pred(e, layerIn) \/ pred(e, fasciculatesIn) \/ pred(e, endsIn) \/ pred(e, internalIn)

\* reclr.select_ext, `if col:` branch, the choice of l: the first layer when
\* several are held, skipping excluded ones; the only one when one is held.
RECURSIVE SkipExcluded(_, _)
SkipExcluded(l, layer) ==
    IF l \in EXCLUDED_LAYERS
    THEN IF Len(layer) > 0 THEN SkipExcluded(Head(layer), Tail(layer))
         ELSE [ l |-> None, layer |-> <<>> ]
    ELSE [ l |-> l, layer |-> layer ]

TakeLayer(layer) ==
    IF Len(layer) > 0
    THEN IF Len(layer) > 1 THEN SkipExcluded(Head(layer), Tail(layer))
         ELSE [ l |-> Last(layer), layer |-> <<>> ]
    ELSE [ l |-> None, layer |-> <<>> ]

\* reclr.select_ext on an edge that passed the predicate test.
\* st = [status, collect, layer, col].
select_ext_hit(blob, e, st) ==
    LET external == e.obj
    IN  IF external \notin NodeIds(blob.nodes) THEN [ st EXCEPT !.status = "IndexError" ]
        ELSE IF st.col
        THEN Bind(TakeLayer(st.layer), LAMBDA t :
                 [ st EXCEPT !.layer = t.layer, !.collect = Append(@, <<t.l, external>>) ])
        ELSE [ st EXCEPT !.layer = Append(@, external) ]

\* nifstd.ematch(blob, select_ext, m), from edge i on.  stack holds the
\* arguments of the select_ext calls that have not returned: a cloneOf edge
\* back to one of them recurses for ever.
RECURSIVE select_ext(_, _, _, _, _, _)
select_ext(blob, iot_predicate, m, i, st, stack) ==
    IF st.status # "ok" \/ i > Len(blob.edges) THEN st
    ELSE LET e == blob.edges[i]
             st1 == IF e.sub # m THEN st
                    ELSE IF pred(e, cloneOf)
                    THEN IF e.obj \in stack THEN [ st EXCEPT !.status = "RecursionError" ]
                         ELSE select_ext(blob, iot_predicate, e.obj, 1, st, stack \cup {e.obj})
                    ELSE IF IsTermEdge(e, iot_predicate) THEN select_ext_hit(blob, e, st)
                    ELSE st
         IN  select_ext(blob, iot_predicate, m, i + 1, st1, stack)

\* nifstd.ematch(blob, select, m) of reclr, from edge i on.
RECURSIVE reclr_select(_, _, _, _, _, _)
reclr_select(blob, iot_predicate, m, i, st, stack) ==
    IF st.status # "ok" \/ i > Len(blob.edges) THEN st
    ELSE LET e == blob.edges[i]
             st1 == IF e.sub = m /\ IsContainment(e)
                    THEN Bind(select_ext(blob, iot_predicate, e.obj, 1,
                                         [ st EXCEPT !.col = ~ isLayer(blob, e.obj) ], {e.obj}),
                              LAMBDA st3 :
                         IF e.obj \in stack /\ st3.status = "ok"
                         THEN [ st3 EXCEPT !.status = "RecursionError" ]
                         ELSE reclr_select(blob, iot_predicate, e.obj, 1, st3, stack \cup {e.obj}))
                    ELSE st
         IN  reclr_select(blob, iot_predicate, m, i + 1, st1, stack)

\* Apinatomy.reclr(blob, start_link): [status, collect], collect the list of
\* (layer, region) pairs.
reclr(blob, start_link) ==
    Bind(reclr_select(blob, getiot(blob.edges), start_link, 1,
                      [ status |-> "ok", collect |-> <<>>, layer |-> <<>>, col |-> TRUE ],
                      {start_link}),
         LAMBDA st : [ status |-> st.status, collect |-> st.collect ])

\* [obj(t) for d in ds for t in ematch(blob, test, d)]
ObjsFrom(blob, ds, test(_, _)) ==
    Flatten(MapSeq(ds, LAMBDA d :
        MapSeq(SelectSeq(blob.edges, LAMBDA e : e.sub = d /\ test(e, d)), LAMBDA e : e.obj)))

\* Apinatomy.layer_regions(blob, start): [status, start, lrs].
layer_regions(blob, start) ==
    LET iot_predicate == getiot(blob.edges)
        direct == ObjsFrom(blob, <<start>>, LAMBDA e, m :
                      pred(e, internalIn) \/ pred(e, endsIn) \/ pred(e, fasciculatesIn))
        layers0 == ObjsFrom(blob, direct, LAMBDA e, m :
                      isLayer(blob, m) /\ IsTermEdge(e, iot_predicate))
        layers == SelectSeq(layers0, LAMBDA l : l \notin EXCLUDED_LAYERS)
        ldir == ObjsFrom(blob, direct, LAMBDA e, m : pred(e, layerIn))
        lregs == IF layers # <<>>
                 THEN ObjsFrom(blob, ldir, LAMBDA e, m :
                          ~ isLayer(blob, m) /\ IsTermEdge(e, iot_predicate))
                 ELSE <<>>
        regions == ObjsFrom(blob, direct, LAMBDA e, m :
                      ~ isLayer(blob, m) /\ IsTermEdge(e, iot_predicate))
    IN  Bind(reclr(blob, start), LAMBDA lrs :
        IF lrs.status # "ok" THEN [ status |-> lrs.status, start |-> start, lrs |-> <<>> ]
        ELSE IF lregs # <<>> /\ regions # <<>>
        THEN [ status |-> "AssertionError", start |-> start, lrs |-> <<>> ]
        ELSE [ status |-> "ok", start |-> start, lrs |-> lrs.collect ])

\* Apinatomy.find_terminals(blob, type).
find_terminals(blob, type) ==
    LET iot_predicate_s == iot_s(getiot(blob.edges))
    IN  SelectSeq(blob.edges, LAMBDA es :
            pred(es, iot_predicate_s) /\ es.obj = type
            /\ \E i \in 1..Len(blob.edges) :
                   /\ blob.edges[i].sub = es.sub
                   /\ pred(blob.edges[i], topology_s)
                   /\ blob.edges[i].obj = BAG)

\* find_region_layer.select_term over nifstd.ematch(blob, select_term, m), from
\* edge i on.  st = [status, collect, layers, layers_ies, donel, doner];
\* bindex[layer] raises KeyError for an id without a node record.
RECURSIVE select_term(_, _, _, _, _)
select_term(blob, iot_predicate, m, i, st) ==
    IF st.status # "ok" \/ i > Len(blob.edges) THEN st
    ELSE LET e == blob.edges[i]
             layer == e.obj
             st1 == IF e.sub = m /\ IsTermEdge(e, iot_predicate) /\ layer \notin st.donel
                    THEN IF layer \notin NodeIds(blob.nodes)
                         THEN [ st EXCEPT !.status = "KeyError" ]
                         ELSE IF pred(e, iot_predicate) \/ pred(e, iot_s(iot_predicate))
                         THEN [ st EXCEPT !.donel = @ \cup {layer}, !.layers_ies = Append(@, layer) ]
                         ELSE [ st EXCEPT !.donel = @ \cup {layer}, !.layers = Append(@, layer) ]
                    ELSE st
         IN  select_term(blob, iot_predicate, m, i + 1, st1)

\* find_region_layer.select over nifstd.ematch(blob, select, m), from edge i on.
RECURSIVE frl_select(_, _, _, _, _, _)
frl_select(blob, iot_predicate, m, i, st, stack) ==
    IF st.status # "ok" \/ i > Len(blob.edges) THEN st
    ELSE LET e == blob.edges[i]
             up(st0) == IF e.obj \in stack /\ st0.status = "ok"
                        THEN [ st0 EXCEPT !.status = "RecursionError" ]
                        ELSE frl_select(blob, iot_predicate, e.obj, 1, st0, stack \cup {e.obj})
             st1 == IF e.sub # m THEN st
                    ELSE IF pred(e, layerIn)
                    THEN up(select_term(blob, iot_predicate, e.sub, 1, st))
                    ELSE IF pred(e, fasciculatesIn) \/ pred(e, endsIn) THEN up(st)
                    ELSE IF pred(e, ontologyTerms)
                    THEN IF e.obj \in st.doner THEN st
                         ELSE IF e.obj \notin NodeIds(blob.nodes)
                         THEN [ st EXCEPT !.status = "KeyError" ]
                         ELSE [ st EXCEPT !.doner = @ \cup {e.obj}, !.collect = Append(@, e.obj) ]
                    ELSE st
         IN  frl_select(blob, iot_predicate, m, i + 1, st1, stack)

\* zip(collect, layers)
Zip(a, b) == [ i \in 1..(IF Len(a) < Len(b) THEN Len(a) ELSE Len(b)) |-> <<a[i], b[i]>> ]

\* pair_up without the comparison of the lengths: zip alone, which cuts the
\* longer list.
pair_up_unchecked(collect, layers) ==
    [ status |-> "ok", pairs |-> Zip(collect, layers), collect |-> collect, layers |-> layers ]

\* The end of find_region_layer: the comparison of the two lengths, the
\* ValueError and the zip.
pair_up(collect, layers) ==
    IF Len(collect) # Len(layers)
    THEN [ status |-> "ValueError", pairs |-> <<>>, collect |-> collect, layers |-> layers ]
    ELSE [ status |-> "ok", pairs |-> Zip(collect, layers),
           collect |-> collect, layers |-> layers ]

\* find_region_layer with the inherited candidates taken whenever there are
\* some, before the ontologyTerms ones.
find_region_layer_ies_first(blob, edge) ==
    Bind(frl_select(blob, getiot(blob.edges), edge.sub, 1,
                    [ status |-> "ok", collect |-> <<>>, layers |-> <<>>,
                      layers_ies |-> <<>>, donel |-> {}, doner |-> {} ],
                    {edge.sub}),
         LAMBDA st :
    IF st.status # "ok"
    THEN [ status |-> st.status, pairs |-> <<>>, collect |-> <<>>, layers |-> <<>> ]
    ELSE Bind(st.collect # <<>> /\ st.layers = <<>> /\ st.layers_ies = <<>>,
              LAMBDA nonelayer :
         Bind(IF nonelayer THEN <<None>>
              ELSE IF st.layers_ies # <<>> THEN st.layers_ies
              ELSE st.layers,
              LAMBDA layers1 :
         Bind(SelectSeq(layers1, LAMBDA l : l = None \/ l \notin EXCLUDED_LAYERS),
              LAMBDA layers2 :
         Bind(IF layers2 = <<>> /\ (nonelayer \/ st.layers_ies # <<>>)
              THEN <<None>> ELSE layers2,
              LAMBDA layers :
         pair_up(SelectSeq(st.collect, LAMBDA c : ~ InSeq(c, layers)), layers))))))

\* Apinatomy.find_region_layer(blob, edge, bindex): [status, pairs, collect,
\* layers]; pairs is the list of (region, layer) returned, collect and layers
\* the two lists whose lengths are compared.
find_region_layer(blob, edge) ==
    Bind(frl_select(blob, getiot(blob.edges), edge.sub, 1,
                    [ status |-> "ok", collect |-> <<>>, layers |-> <<>>,
                      layers_ies |-> <<>>, donel |-> {}, doner |-> {} ],
                    {edge.sub}),
         LAMBDA st :
    IF st.status # "ok"
    THEN [ status |-> st.status, pairs |-> <<>>, collect |-> <<>>, layers |-> <<>> ]
    ELSE Bind(st.collect # <<>> /\ st.layers = <<>> /\ st.layers_ies = <<>>,
              LAMBDA nonelayer :
         Bind(IF nonelayer THEN <<None>>
              ELSE IF st.layers_ies # <<>> /\ st.layers = <<>> THEN st.layers_ies
              ELSE st.layers,
              LAMBDA layers1 :
         Bind(SelectSeq(layers1, LAMBDA l : l = None \/ l \notin EXCLUDED_LAYERS),
              LAMBDA layers2 :
         Bind(IF layers2 = <<>> /\ (nonelayer \/ st.layers_ies # <<>>)
              THEN <<None>> ELSE layers2,
              LAMBDA layers :
         pair_up(SelectSeq(st.collect, LAMBDA c : ~ InSeq(c, layers)), layers))))))

\* find_terminal_region_layers without the try/except: the ValueError leaves
\* the call as any other exception does.
find_terminal_region_layers_uncaught(blob, type) ==
    Bind(MapSeq(find_terminals(blob, type), LAMBDA es : find_region_layer(blob, es)),
         LAMBDA outs :
    IF \A i \in 1..Len(outs) : outs[i].status = "ok"
    THEN [ status |-> "ok", error |-> FALSE, calls |-> outs,
           regions |-> Flatten(MapSeq(outs, LAMBDA r : r.pairs)) ]
    ELSE Bind(CHOOSE i \in 1..Len(outs) :
                  outs[i].status # "ok" /\ \A k \in 1..(i-1) : outs[k].status = "ok",
              LAMBDA first :
         [ status |-> outs[first].status, error |-> FALSE,
           calls |-> SubSeq(outs, 1, first), regions |-> <<>> ]))

\* Apinatomy.find_terminal_region_layers(blob, type, bindex): [status,
\* regions, error, calls].  regions is 'terminal-regions'; error is TRUE when the
\* 'error' key is set; calls lists the find_region_layer calls made with what
\* each ended in.  A ValueError is caught, any other exception is not.
find_terminal_region_layers(blob, type) ==
    Bind(MapSeq(find_terminals(blob, type), LAMBDA es : find_region_layer(blob, es)),
         LAMBDA outs :
    IF \A i \in 1..Len(outs) : outs[i].status = "ok"
    THEN [ status |-> "ok", error |-> FALSE, calls |-> outs,
           regions |-> Flatten(MapSeq(outs, LAMBDA r : r.pairs)) ]
    ELSE Bind(CHOOSE i \in 1..Len(outs) :
                  outs[i].status # "ok" /\ \A k \in 1..(i-1) : outs[k].status = "ok",
              LAMBDA first :
         IF outs[first].status = "ValueError"
         THEN [ status |-> "ok", error |-> TRUE, calls |-> SubSeq(outs, 1, first),
                regions |-> <<>> ]
         ELSE [ status |-> outs[first].status, error |-> FALSE,
                calls |-> SubSeq(outs, 1, first), regions |-> <<>> ]))

\* ------------------------------------------------ Apinatomy.parse_connectivity
\* The anatomical-layer tuple (layers[0], tuple(layers[1:])) is <<primary, rest>>;
\* a None result is the empty tuple.
NoLayer == <<>>

\* anatomical_layer without the filter on EXCLUDED_LAYERS: only None is left
\* out.
anatomical_layer_unfiltered(pair_list) ==
    LET first == IF pair_list[1][1] = None THEN << pair_list[1][2] >> ELSE pair_list[1]
        layers == SelectSeq(first \o Flatten(Tail(pair_list)), LAMBDA layer : layer # None)
    IN  IF Len(layers) > 0 THEN << layers[1], Tail(layers) >> ELSE NoLayer

\* parse_connectivity.anatomical_layer(pair_list).
anatomical_layer(pair_list) ==
    LET first == IF pair_list[1][1] = None THEN << pair_list[1][2] >> ELSE pair_list[1]
        all == first \o Flatten(Tail(pair_list))
        layers == SelectSeq(all, LAMBDA layer : layer \notin EXCLUDED_LAYERS)
    IN  IF Len(layers) > 0 THEN << layers[1], Tail(layers) >> ELSE NoLayer

\* str(err) of the ValueError find_region_layer raises, without the ids it lists.
LenNotMatched == "len not matched"

\* ErrorsEntry with `is None` where the code tests `is not None`.
ErrorsEntry_inverted(axon_error, dendrite_error) ==
    IF ~ axon_error THEN << "find axon: " \o LenNotMatched >>
    ELSE IF ~ dendrite_error THEN <<>> \o << "find dendrite: " \o LenNotMatched >>
    ELSE <<>>

\* The 'errors' entry of the returned dict:
\*   [axon entry] if axon_error is not None else
\*       ([] + [dendrite entry] if dendrite_error is not None else [])
ErrorsEntry(axon_error, dendrite_error) ==
    IF axon_error THEN << "find axon: " \o LenNotMatched >>
    ELSE IF dendrite_error THEN <<>> \o << "find dendrite: " \o LenNotMatched >>
    ELSE <<>>

\* The list a comprehension over set(...) yields: the members of S without
\* None, as a set; the order they come in is the set's iteration order.
TerminalLayers(regions) ==
    { anatomical_layer(<< << regions[i][2], regions[i][1] >> >>) : i \in 1..Len(regions) }
        \ { NoLayer }

\* The first status other than "ok" in a sequence of outcomes, else "ok".
FirstStatus(outs) ==
    IF \A i \in 1..Len(outs) : outs[i].status = "ok" THEN "ok"
    ELSE outs[CHOOSE i \in 1..Len(outs) :
                  outs[i].status # "ok" /\ \A k \in 1..(i-1) : outs[k].status = "ok"].status

\* What a call of parse_connectivity that raised leaves: no dict, and the
\* find_region_layer calls made before it raised.
Raised(status, axon_calls, dendrite_calls) ==
    [ status |-> status, edges |-> <<>>, nodes |-> <<>>, axons |-> {}, dendrites |-> {},
      connectivity |-> {}, errors |-> <<>>,
      axon_calls |-> axon_calls, dendrite_calls |-> dendrite_calls ]

\* keep_pair without the comparison of the two ends.
keep_pair_any_ends(al0, al1) == al0 # NoLayer /\ al1 # NoLayer

\* The condition of the comprehension that builds 'connectivity'.
keep_pair(al0, al1) == al0 # NoLayer /\ al1 # NoLayer /\ al0 # al1

\* Apinatomy.parse_connectivity(data) up to the order of the three lists built
\* from sets: [status, edges, nodes, axons, dendrites, connectivity, errors,
\* axon_calls, dendrite_calls], the three lists as sets; edges and nodes are
\* the normalized graph the resolvers ran on.
parse_connectivity(data) ==
    Bind(deblob(data, FALSE),
         LAMBDA blob :
    IF blob.status # "ok" THEN Raised(blob.status, <<>>, <<>>)
    ELSE Bind(Flatten(MapSeq(
                  MapSeq(SelectSeq(blob.edges, LAMBDA e : pred(e, lyphs)), LAMBDA e : e.obj),
                  LAMBDA start :
                      MapSeq(SelectSeq(blob.edges, LAMBDA e : pred(e, next) \/ pred(e, next_s)),
                             LAMBDA t : << t.sub, t.obj >>))),
              LAMBDA nexts :
         Bind([ n \in { nexts[i][1] : i \in 1..Len(nexts) } \cup { nexts[i][2] : i \in 1..Len(nexts) }
                |-> layer_regions(blob, n) ],
              LAMBDA lr :
         Bind(FirstStatus(Flatten(MapSeq(nexts, LAMBDA p : << lr[p[1]], lr[p[2]] >>))),
              LAMBDA lrstatus :
         IF lrstatus # "ok" THEN Raised(lrstatus, <<>>, <<>>)
         ELSE Bind(find_terminal_region_layers(blob, axon),
                   LAMBDA axon_terminal_regions :
              IF axon_terminal_regions.status # "ok"
              THEN Raised(axon_terminal_regions.status, axon_terminal_regions.calls, <<>>)
              ELSE Bind(find_terminal_region_layers(blob, dendrite),
                        LAMBDA dendrite_terminal_regions :
                   IF dendrite_terminal_regions.status # "ok"
                   THEN Raised(dendrite_terminal_regions.status, axon_terminal_regions.calls,
                               dendrite_terminal_regions.calls)
                   ELSE [ status |-> "ok",
                          edges |-> blob.edges,
                          nodes |-> blob.nodes,
                          axons |-> TerminalLayers(axon_terminal_regions.regions),
                          dendrites |-> TerminalLayers(dendrite_terminal_regions.regions),
                          connectivity |->
                              { c \in { << anatomical_layer(lr[nexts[i][1]].lrs),
                                           anatomical_layer(lr[nexts[i][2]].lrs) >> :
                                        i \in { k \in 1..Len(nexts) :
                                                  /\ lr[nexts[k][1]].lrs # lr[nexts[k][2]].lrs
                                                  /\ Len(lr[nexts[k][1]].lrs) > 0
                                                  /\ Len(lr[nexts[k][2]].lrs) > 0 } } :
                                keep_pair(c[1], c[2]) },
                          errors |-> ErrorsEntry(axon_terminal_regions.error,
                                                 dendrite_terminal_regions.error),
                          axon_calls |-> axon_terminal_regions.calls,
                          dendrite_calls |-> dendrite_terminal_regions.calls ]))))))

\* The lists a set can be iterated into: the iteration order of a set of tuples
\* of str follows the strings' hashes, which differ from one interpreter run to
\* the next.
Orderings(S) ==
    { s \in [ 1..Cardinality(S) -> S ] : \A i, j \in 1..Cardinality(S) : s[i] = s[j] => i = j }

\* ------------------------------------------------------------- the raw graphs
MaxEdges == 10
MaxPasses == 2
MaxRuns == 2
MaxConverge == 1

\* The edges of pool at the positions in mask, in pool order.
RECURSIVE PickFrom(_, _, _)
PickFrom(pool, mask, i) ==
    IF i > Len(pool) THEN <<>>
    ELSE (IF i \in mask THEN << pool[i] >> ELSE <<>>) \o PickFrom(pool, mask, i + 1)

\* A node record for every id in ids.
NodesFor(ids) == MapSeq(ids, LAMBDA n : [ id |-> n, topology |-> None ])

\* The ids the edges refer to, in the order they first occur.
ReferencedIds(edges) == Dedup(Flatten(MapSeq(edges, LAMBDA e : << e.sub, e.obj >>)))

\* The raw graphs drawn from a pool of edges: any at most MaxEdges of them, in
\* pool order, with a node record for every id referred to but those in drop.
GraphsOf(pool, drops) ==
    { [ edges |-> PickFrom(pool, mask, 1),
        nodes |-> NodesFor(SelectSeq(ReferencedIds(PickFrom(pool, mask, 1)),
                                     LAMBDA n : n \notin drop)) ]
      : mask \in { m \in SUBSET (1..Len(pool)) : Cardinality(m) <= MaxEdges },
        drop \in drops }

\* Chains over target, rootOf, levels and over conveys, source/target, sourceOf,
\* with a second copy of an edge (one carrying 'meta'), a rootOf edge that leaves
\* the head of the path, and next and nextChainStartLevels edges into its end.
ChainPool ==
    << Edge("a", rootOf, "c"),
       Edge("a", target, "b"),
       MetaEdge("a", target, "b"),
       Edge("b", rootOf, "c"),
       Edge("c", levels, "d"),
       Edge("x", next, "d"),
       Edge("x", nextChainStartLevels, "d"),
       Edge("a", conveys, "b"),
       Edge("b", source, "c"),
       Edge("b", target, "c"),
       Edge("c", sourceOf, "d") >>

\* A neuron segment x with its conveying lyph l and a clone b: the chains that
\* give topology* and inheritedExternal* (or inheritedOntologyTerms*) edges, the
\* container of x, and a cloneOf edge back that closes a cycle.
LyphPool ==
    << Edge("x", conveyingLyph, "l"),
       Edge("l", topology, BAG),
       MetaEdge("l", inheritedExternal, axon),
       Edge("x", cloneOf, "b"),
       Edge("b", inheritedExternal, dendrite),
       Edge("b", inheritedOntologyTerms, "t"),
       Edge("x", endsIn, "y"),
       Edge("y", ontologyTerms, "UBERON:0000948"),
       Edge("b", cloneOf, "x") >>

\* Terminals: x an axon terminal and z an axon or dendrite terminal, each in a
\* layer or at the end of a container that carries region terms.
TerminalPool ==
    << Edge("x", inheritedExternal_s, axon),
       Edge("x", topology_s, BAG),
       Edge("x", layerIn, "y"),
       Edge("x", endsIn, "y"),
       Edge("y", ontologyTerms, "UBERON:0000948"),
       Edge("z", inheritedExternal_s, axon),
       Edge("z", inheritedExternal_s, dendrite),
       Edge("z", topology_s, BAG),
       Edge("z", endsIn, "y"),
       Edge("z", endsIn, "u"),
       Edge("u", ontologyTerms, "UBERON:0002078"),
       Edge("u", ontologyTerms, "UBERON:0001017") >>

\* Path links a -> b -> t under a lyphs edge, with the containers of a, b and t
\* and their terms: c may be a layer of u, d may carry an excluded term, and
\* the term edge of u may come twice, once carrying 'meta'.
ConnectivityPool ==
    << Edge("m", lyphs, "l"),
       Edge("a", next, "b"),
       Edge("b", next_s, "t"),
       Edge("a", endsIn, "c"),
       Edge("c", ontologyTerms, "UBERON:0000948"),
       Edge("c", layerIn, "u"),
       Edge("b", internalIn, "d"),
       Edge("d", ontologyTerms, "UBERON:0000948"),
       Edge("d", ontologyTerms, "UBERON:0001017"),
       Edge("t", fasciculatesIn, "u"),
       Edge("u", ontologyTerms, "UBERON:0002078"),
       MetaEdge("u", ontologyTerms, "UBERON:0002078") >>

\* An axon terminal x and a dendrite terminal z with their containers and
\* region terms, for graphs whose node list lacks the record of x, of a
\* container or of a region term.
DanglingPool ==
    << Edge("x", inheritedExternal_s, axon),
       Edge("x", topology_s, BAG),
       Edge("x", endsIn, "y"),
       Edge("y", ontologyTerms, "UBERON:0000948"),
       Edge("z", inheritedExternal_s, dendrite),
       Edge("z", topology_s, BAG),
       Edge("z", endsIn, "u"),
       Edge("u", ontologyTerms, "UBERON:0002078") >>

\* Containers that contain each other: an axon terminal x that ends in y while
\* y fasciculates in x, and a path link a -> b with a internal to c while c is
\* a layer of a.
CyclePool ==
    << Edge("x", inheritedExternal_s, axon),
       Edge("x", topology_s, BAG),
       Edge("x", endsIn, "y"),
       Edge("y", fasciculatesIn, "x"),
       Edge("y", ontologyTerms, "UBERON:0000948"),
       Edge("m", lyphs, "l"),
       Edge("a", next, "b"),
       Edge("a", internalIn, "c"),
       Edge("c", layerIn, "a"),
       Edge("c", ontologyTerms, "UBERON:0002078") >>

\* The inheritedOntologyTerms variant: an axon segment x whose conveying lyph l
\* carries the topology and the axon marker, the container of x, and a term
\* edge of z that no chain consumes.
VariantPool ==
    << Edge("x", conveyingLyph, "l"),
       Edge("l", topology, BAG),
       Edge("l", inheritedOntologyTerms, axon),
       Edge("x", endsIn, "y"),
       Edge("y", ontologyTerms, "UBERON:0000948"),
       Edge("z", inheritedOntologyTerms, "t") >>

\* A path a -> b whose first node ends in the layer c of u: c carries a term of
\* EXCLUDED_LAYERS and a second term, a may also be internal to d, which is no
\* layer and carries a term, and the term edge of z keeps getiot defined
\* whatever the chains consume.
ExcludedPool ==
    << Edge("m", lyphs, "l"),
       Edge("a", next, "b"),
       Edge("a", endsIn, "c"),
       Edge("c", ontologyTerms, "UBERON:0001017"),
       Edge("c", ontologyTerms, "UBERON:0000948"),
       Edge("c", layerIn, "u"),
       Edge("u", ontologyTerms, "UBERON:0002078"),
       Edge("b", internalIn, "d"),
       Edge("d", ontologyTerms, "UBERON:0000948"),
       Edge("a", internalIn, "d"),
       Edge("z", inheritedOntologyTerms, "t") >>

\* An axon terminal x that ends in the layer c of u: the layer candidates of c
\* come from ontologyTerms edges and from raw inheritedExternal edges, a member
\* of EXCLUDED_LAYERS and another term each way, u may carry a region term,
\* and the term edge of z keeps getiot defined.
LayerPool ==
    << Edge("x", inheritedExternal_s, axon),
       Edge("x", topology_s, BAG),
       Edge("x", endsIn, "c"),
       Edge("c", layerIn, "u"),
       Edge("c", ontologyTerms, "UBERON:0001017"),
       Edge("c", ontologyTerms, "UBERON:0000948"),
       Edge("c", inheritedExternal, "UBERON:0001017"),
       Edge("c", inheritedExternal, "UBERON:0002084"),
       Edge("u", ontologyTerms, "UBERON:0002078"),
       Edge("z", inheritedExternal, "t") >>

\* The raw graphs of the model.
RawGraphs ==
    GraphsOf(ChainPool, {{}}) \cup GraphsOf(LyphPool, {{}, {"x"}})
        \cup GraphsOf(TerminalPool, {{}}) \cup GraphsOf(ConnectivityPool, {{}})
        \cup GraphsOf(DanglingPool, {{"x"}, {"y"}, {"UBERON:0000948"}})
        \cup GraphsOf(CyclePool, {{}})
        \cup GraphsOf(VariantPool, {{}})
        \cup GraphsOf(ExcludedPool, {{}})
        \cup GraphsOf(LayerPool, {{}})

\* -------------------------------------------------------- the knowledge source
\* The entities looked up: an InterLex term, a neuron path, a connectivity
\* model and two anatomical terms.
Entities ==
    { "ILX:0000001", "ilxtr:neuron-1", "https://apinatomy.org/uris/models/m",
      "UBERON:0000948", "UBERON:0002078" }

INTERLEX_ONTOLOGIES == { "ILX", "NLX" }

CONNECTIVITY_ONTOLOGIES == { "ilxtr" }

APINATOMY_MODEL_PREFIX == "https://apinatomy.org/uris/models/"

\* entity.split(':')[0] on the entities of the model.
OntologyOf(entity) ==
    CASE entity = "ILX:0000001" -> "ILX"
      [] entity = "ilxtr:neuron-1" -> "ilxtr"
      [] entity = "https://apinatomy.org/uris/models/m" -> "https"
      [] OTHER -> "UBERON"

\* entity.startswith(APINATOMY_MODEL_PREFIX) on the entities of the model.
IsModel(entity) == entity = APINATOMY_MODEL_PREFIX \o "m"

\* A knowledge mapping: the keys it holds, the values of 'label', 'long-label'
\* and 'references', the terms of its 'connectivity' pairs, its 'errors', and
\* whether 'connectivity' holds tuples (as parse_connectivity builds it) or
\* lists (as json.loads gives it back).
NoKnowledge ==
    [ keys |-> {}, label |-> None, long |-> None, references |-> <<>>,
      terms |-> {}, errors |-> <<>>, tuples |-> FALSE ]

\* {'label': label}
LabelKnowledge(label) == [ NoKnowledge EXCEPT !.keys = { "label" }, !.label = label ]

\* What the service answers to a request: a request exception, a status other
\* than OK, a body that is not JSON, or JSON data.  The data hold the labels
\* of a term (data['labels'], or data['data']['label'] as a list of at most
\* one), or the graph of a neuron path and whether it comes with a node for
\* the neuron ("none", "plain", or "synonym" when the node's meta holds one);
\* the labels are then the synonym, if any, and the node's lbl.
Response(kind, labels, node, graph) ==
    [ kind |-> kind, labels |-> labels, node |-> node, graph |-> graph ]

EmptyGraph == [ edges |-> <<>>, nodes |-> <<>> ]

\* utils.request_json(endpoint): [status, none, data].  A request exception
\* and a status other than OK give None.  A body that is not JSON makes
\* response.json() raise, and the except clause that is to catch it names
\* json.JSONDecodeError in a module that never imports json: NameError.
request_json(response) ==
    CASE response.kind = "exception" -> [ status |-> "ok", none |-> TRUE, data |-> response ]
      [] response.kind = "status" -> [ status |-> "ok", none |-> TRUE, data |-> response ]
      [] response.kind = "invalid" -> [ status |-> "NameError", none |-> TRUE, data |-> response ]
      [] OTHER -> [ status |-> "ok", none |-> FALSE, data |-> response ]

\* The terms of a set of connectivity pairs: node[0] and the members of node[1]
\* of both ends.
TermsOf(connectivity) ==
    UNION { { c[1][1], c[2][1] } \cup Range(c[1][2]) \cup Range(c[2][2]) : c \in connectivity }

\* The graph of the data of a neuron path: data['nodes'] holds the node of the
\* neuron, when the data have one, before the nodes of the path.
DataGraph(neuron, data) ==
    [ edges |-> data.graph.edges,
      nodes |-> (IF data.node = "none" THEN <<>> ELSE NodesFor(<< neuron >>))
                \o data.graph.nodes ]

\* Apinatomy.neuron_knowledge(neuron, data): [status, knowledge].
neuron_knowledge(neuron, data) ==
    IF data.node = "none" THEN [ status |-> "ok", knowledge |-> NoKnowledge ]
    ELSE Bind(parse_connectivity(DataGraph(neuron, data)),
              LAMBDA pc :
         IF pc.status # "ok" THEN [ status |-> pc.status, knowledge |-> NoKnowledge ]
         ELSE Bind(SelectSeq(data.graph.edges, LAMBDA e : e.sub = neuron /\ pred(e, annotates)),
                   LAMBDA ann :
              [ status |-> "ok",
                knowledge |->
                    [ keys |-> { "id", "label", "long-label", "axons", "dendrites",
                                 "connectivity", "errors" }
                               \cup (IF ann # <<>> THEN { "references" } ELSE {}),
                      label |-> IF data.node = "synonym" THEN data.labels[1] ELSE neuron,
                      long |-> data.labels[Len(data.labels)],
                      references |->
                          IF ann = <<>> THEN <<>>
                          ELSE MapSeq(SelectSeq(data.graph.edges, LAMBDA e :
                                          e.sub = ann[1].obj /\ pred(e, references)),
                                      LAMBDA e : e.obj),
                      terms |-> TermsOf(pc.connectivity),
                      errors |-> pc.errors,
                      tuples |-> TRUE ] ]))

\* Apinatomy.model_knowledge(model, data) on data without nodes:
\* {'id', 'paths', 'references'}.
model_knowledge(model, data) ==
    [ NoKnowledge EXCEPT !.keys = { "id", "paths", "references" } ]

\* SciCrunch.get_knowledge(entity) with or without an API key, on the answer
\* of the service: [status, knowledge].
get_knowledge(key, entity, response) ==
    IF ~ key THEN [ status |-> "ok", knowledge |-> NoKnowledge ]
    ELSE Bind(request_json(response),
              LAMBDA r :
         IF r.status # "ok" THEN [ status |-> r.status, knowledge |-> NoKnowledge ]
         ELSE IF r.none THEN [ status |-> "ok", knowledge |-> NoKnowledge ]
         ELSE IF OntologyOf(entity) \in INTERLEX_ONTOLOGIES
         THEN [ status |-> "ok",
                knowledge |-> LabelKnowledge(IF r.data.labels # <<>>
                                             THEN r.data.labels[1] ELSE entity) ]
         ELSE IF OntologyOf(entity) \in CONNECTIVITY_ONTOLOGIES
         THEN neuron_knowledge(entity, r.data)
         ELSE IF IsModel(entity)
         THEN [ status |-> "ok", knowledge |-> model_knowledge(entity, r.data) ]
         ELSE [ status |-> "ok",
                knowledge |-> IF Len(r.data.labels) > 0
                              THEN LabelKnowledge(r.data.labels[1])
                              ELSE LabelKnowledge(entity) ])

\* -------------------------------------------------------------- KnowledgeStore
\* The tables of a new knowledge base: a row is a list of one value, no row
\* the empty list.
NoTables ==
    [ knowledge |-> [ e \in Entities |-> <<>> ],
      labels |-> [ e \in Entities |-> <<>> ],
      publications |-> [ e \in Entities |-> <<>> ] ]

\* 'entity like ?' for the patterns of clean_connectivity: the model prefix
\* and every ontology of CONNECTIVITY_ONTOLOGIES.
IsConnectivityEntity(entity) == IsModel(entity) \/ OntologyOf(entity) \in CONNECTIVITY_ONTOLOGIES

\* KnowledgeStore.__init__ on the tables of the store directory: [status,
\* store].  db tells whether a store directory was given, scicrunch is "none"
\* (scicrunch_api=None), "nokey" or "key".  The deletes of clean_connectivity
\* fail on a connection opened read-only.
KnowledgeStore(tables, db, read_only, scicrunch, clean_connectivity) ==
    Bind([ db |-> db, read_only |-> read_only, scicrunch |-> scicrunch,
           cache |-> [ e \in Entities |-> NoKnowledge ], unknown |-> <<>>,
           knowledge |-> tables.knowledge, labels |-> tables.labels,
           publications |-> tables.publications ],
         LAMBDA st :
    IF ~ (db /\ clean_connectivity) THEN [ status |-> "ok", store |-> st ]
    ELSE IF read_only THEN [ status |-> "OperationalError", store |-> st ]
    ELSE [ status |-> "ok",
           store |-> [ st EXCEPT
               !.knowledge = [ e \in Entities |-> IF IsConnectivityEntity(e) THEN <<>> ELSE @[e] ],
               !.labels = [ e \in Entities |-> IF IsConnectivityEntity(e) THEN <<>> ELSE @[e] ],
               !.publications = [ e \in Entities |->
                                    IF IsConnectivityEntity(e) THEN <<>> ELSE @[e] ] ] ])

\* SciCrunch.connectivity_metadata(entity): the keys it adds to the knowledge
\* of a neuron path.
connectivity_metadata(entity) == { "phenotypes", "taxon" }

\* json.loads of a row written by json.dumps: tuples come back as lists.
DbLoad(k) == [ k EXCEPT !.tuples = FALSE ]

\* The block of entity_knowledge that saves what SciCrunch gave: [knowledge,
\* store].
SaveKnowledge(st, entity, knowledge) ==
    IF ~ (knowledge.keys # {} /\ st.db /\ ~ st.read_only)
    THEN [ knowledge |-> knowledge, store |-> st ]
    ELSE Bind(IF "label" \in knowledge.keys /\ knowledge.label = entity
                 /\ "long-label" \in knowledge.keys
              THEN [ knowledge EXCEPT !.label = knowledge.long ] ELSE knowledge,
              LAMBDA k :
         [ knowledge |-> k,
           store |-> [ st EXCEPT
               !.knowledge[entity] = << k >>,
               !.labels[entity] = IF "label" \in k.keys THEN << k.label >> ELSE @,
               !.publications[entity] = IF "references" \in k.keys THEN k.references ELSE @ ] ])

\* entity_knowledge, label, and the loop of entity_knowledge over the
\* connectivity terms: each gives [status, knowledge, store, queries], queries
\* the entities SciCrunch.get_knowledge was called with.  W is what the
\* service answers for each entity, order the order in which the set of
\* connectivity terms is iterated, stack the entities whose lookup is under way.
RECURSIVE entity_knowledge(_, _, _, _, _)
RECURSIVE label(_, _, _, _, _)
RECURSIVE LabelTerms(_, _, _, _, _)
RECURSIVE ConsultSciCrunch(_, _, _, _, _)

\* for connectivity_term in connectivity_terms: self.label(connectivity_term)
LabelTerms(W, st, todo, order, stack) ==
    IF todo = <<>>
    THEN [ status |-> "ok", knowledge |-> NoKnowledge, store |-> st, queries |-> <<>> ]
    ELSE Bind(label(W, st, Head(todo), order, stack),
              LAMBDA r :
         IF r.status # "ok" THEN r
         ELSE Bind(LabelTerms(W, r.store, Tail(todo), order, stack),
                   LAMBDA rest : [ rest EXCEPT !.queries = r.queries \o @ ]))

\* The block of entity_knowledge under `if self.__scicrunch is not None and
\* ...`.  A lookup that comes back to an entity whose lookup is under way
\* never ends: RecursionError.
ConsultSciCrunch(W, st, entity, order, stack) ==
    IF entity \in stack
    THEN [ status |-> "RecursionError", knowledge |-> NoKnowledge, store |-> st,
           queries |-> <<>> ]
    ELSE
    Bind(get_knowledge(st.scicrunch = "key", entity, W[entity]),
         LAMBDA gk :
    IF gk.status # "ok"
    THEN [ status |-> gk.status, knowledge |-> NoKnowledge, store |-> st,
           queries |-> << entity >> ]
    ELSE
    Bind(LabelTerms(W,
                    [ st EXCEPT !.unknown = IF gk.knowledge.keys = {} /\ ~ InSeq(entity, @)
                                            THEN Append(@, entity) ELSE @ ],
                    IF "connectivity" \in gk.knowledge.keys
                    THEN SelectSeq(order, LAMBDA t : t \in gk.knowledge.terms) ELSE <<>>,
                    order, stack \cup { entity }),
         LAMBDA lt :
    IF lt.status # "ok" THEN [ lt EXCEPT !.queries = << entity >> \o @ ]
    ELSE
    Bind(SaveKnowledge(lt.store, entity,
                       IF "connectivity" \in gk.knowledge.keys
                       THEN [ gk.knowledge EXCEPT !.keys = @ \cup connectivity_metadata(entity) ]
                       ELSE gk.knowledge),
         LAMBDA saved :
    [ status |-> "ok", knowledge |-> saved.knowledge, store |-> saved.store,
      queries |-> << entity >> \o lt.queries ])))

\* KnowledgeStore.entity_knowledge(entity)
entity_knowledge(W, st, entity, order, stack) ==
    IF st.db /\ st.cache[entity].keys # {}
    THEN [ status |-> "ok", knowledge |-> st.cache[entity], store |-> st, queries |-> <<>> ]
    ELSE
    Bind(IF st.db /\ st.knowledge[entity] # <<>>
         THEN DbLoad(st.knowledge[entity][1]) ELSE NoKnowledge,
         LAMBDA row :
    Bind(IF st.scicrunch # "none"
            /\ (row.keys = {} \/ entity = (IF "label" \in row.keys THEN row.label ELSE entity))
         THEN ConsultSciCrunch(W, st, entity, order, stack)
         ELSE [ status |-> "ok", knowledge |-> row, store |-> st, queries |-> <<>> ],
         LAMBDA c :
    IF c.status # "ok" THEN c
    ELSE
    Bind(IF "label" \notin c.knowledge.keys
         THEN [ c.knowledge EXCEPT !.keys = @ \cup { "label" }, !.label = entity ]
         ELSE c.knowledge,
         LAMBDA knowledge :
    [ status |-> "ok", knowledge |-> knowledge,
      store |-> [ c.store EXCEPT !.cache[entity] = knowledge ],
      queries |-> c.queries ])))

\* KnowledgeStore.label(entity): the value returned is knowledge.label.
label(W, st, entity, order, stack) ==
    IF st.db /\ st.labels[entity] # <<>>
    THEN [ status |-> "ok", knowledge |-> LabelKnowledge(st.labels[entity][1]),
           store |-> st, queries |-> <<>> ]
    ELSE entity_knowledge(W, st, entity, order, stack)

\* ------------------------------------------------- what the service answers
\* The graph of a neuron path: its annotation and reference, and a path link
\* a -> b under a lyphs edge whose ends lie in two regions.
PathGraph ==
    Bind(<< Edge("ilxtr:neuron-1", annotates, "n"),
            Edge("n", references, "PMID:1"),
            Edge("m", lyphs, "l"),
            Edge("a", next, "b"),
            Edge("a", endsIn, "c"),
            Edge("c", ontologyTerms, "UBERON:0000948"),
            Edge("b", internalIn, "d"),
            Edge("d", ontologyTerms, "UBERON:0002078") >>,
         LAMBDA edges :
             [ edges |-> edges,
               nodes |-> NodesFor(SelectSeq(ReferencedIds(edges),
                                            LAMBDA n : n # "ilxtr:neuron-1")) ])

\* The graph of a neuron path with an axon terminal whose region term has no
\* node record.
BrokenGraph ==
    Bind(<< Edge("x", inheritedExternal_s, axon),
            Edge("x", topology_s, BAG),
            Edge("x", endsIn, "y"),
            Edge("y", ontologyTerms, "UBERON:0000948") >>,
         LAMBDA edges :
             [ edges |-> edges,
               nodes |-> NodesFor(SelectSeq(ReferencedIds(edges),
                                            LAMBDA n : n # "UBERON:0000948")) ])

Failure(kind) == Response(kind, <<>>, "none", EmptyGraph)

Labels(labels) == Response("json", labels, "none", EmptyGraph)

\* The service at its best: every entity known, every term labelled.
BaseWorld ==
    [ e \in Entities |->
        CASE e = "ILX:0000001" -> Labels(<< "interlex term" >>)
          [] e = "UBERON:0000948" -> Labels(<< "heart" >>)
          [] e = "UBERON:0002078" -> Labels(<< "right atrium" >>)
          [] e = "ilxtr:neuron-1" ->
                 Response("json", << "neuron one", "neuron type one" >>, "synonym", PathGraph)
          [] OTHER -> Labels(<<>>) ]

\* The answers of the model: the service at its best, and the same with one
\* entity's answer replaced by a failure, by data without a label, by a graph
\* without the neuron, without a synonym, without edges, or with a node
\* record missing.
Worlds ==
    { BaseWorld }
    \cup { [ BaseWorld EXCEPT !["ILX:0000001"] = r ] :
           r \in { Failure("exception"), Labels(<<>>) } }
    \cup { [ BaseWorld EXCEPT !["UBERON:0000948"] = r ] :
           r \in { Failure("status"), Failure("invalid"), Labels(<<>>) } }
    \cup { [ BaseWorld EXCEPT !["ilxtr:neuron-1"] = r ] :
           r \in { Failure("exception"),
                   Response("json", <<>>, "none", PathGraph),
                   Response("json", << "neuron type one" >>, "plain", PathGraph),
                   Response("json", << "neuron type one" >>, "plain", EmptyGraph),
                   Response("json", << "neuron one", "neuron type one" >>, "synonym",
                            BrokenGraph) } }

\* ------------------------------------------------------------ the state machine
MaxCalls == 2
MaxInstances == 2

\* hist, runs, conv: the graph and the calls made on it.  store: the
\* KnowledgeStore instance in use and the tables of its store directory;
\* remote: what the service answers; lookups: the calls made on the store.
VARIABLES hist, runs, conv, store, remote, lookups

vars == << hist, runs, conv, store, remote, lookups >>

\* hist[1] is the raw graph; each deblob call on it appends what the call left.
raw == [ edges |-> hist[1].edges, nodes |-> hist[1].nodes ]

InitWith(graphs) ==
    /\ hist \in { << [ status |-> "ok", edges |-> g.edges, nodes |-> g.nodes ] >> : g \in graphs }
    /\ runs = <<>>
    /\ conv = <<>>

\* The configurations a KnowledgeStore is constructed with: store directory
\* or none, read_only, scicrunch ("none", "nokey", "key"), clean_connectivity.
Configs ==
    { c \in [ db : BOOLEAN, read_only : BOOLEAN, scicrunch : { "none", "nokey", "key" },
              clean : BOOLEAN ] : ~ c.db => (~ c.read_only /\ ~ c.clean) }

\* A first KnowledgeStore, on a new store directory when it has one.
StoreInitWith(configs, worlds) ==
    /\ store \in { [ instance |-> 1,
                      ks |-> KnowledgeStore(NoTables, c.db, c.read_only, c.scicrunch,
                                            FALSE).store ] : c \in configs }
    /\ remote \in worlds
    /\ lookups = <<>>

Init ==
    /\ InitWith(RawGraphs)
    /\ StoreInitWith({ [ db |-> FALSE, read_only |-> FALSE, scicrunch |-> "none",
                         clean |-> FALSE ] }, { BaseWorld })

\* Apinatomy.deblob(blob) on the graph object, which it changes in place.
Deblob ==
    /\ Len(hist) <= MaxPasses
    /\ Last(hist).status = "ok"
    /\ hist' = Append(hist, deblob([ edges |-> Last(hist).edges, nodes |-> Last(hist).nodes ],
                                 FALSE))
    /\ UNCHANGED << runs, conv, store, remote, lookups >>

\* Apinatomy.parse_connectivity(data) on a graph equal to the raw one.
ParseConnectivity ==
    /\ Len(runs) < MaxRuns
    /\ \E r \in { parse_connectivity(raw) } :
           \E ax \in Orderings(r.axons), de \in Orderings(r.dendrites),
              co \in Orderings(r.connectivity) :
               runs' = Append(runs, [ r EXCEPT !.axons = ax, !.dendrites = de,
                                               !.connectivity = co ])
    /\ UNCHANGED << hist, conv, store, remote, lookups >>

\* Apinatomy.deblob(blob, remove_converge=True) on a graph equal to the raw one.
DeblobRemoveConverge ==
    /\ Len(conv) < MaxConverge
    /\ conv' = Append(conv, deblob(raw, TRUE))
    /\ UNCHANGED << hist, runs, store, remote, lookups >>

Next == Deblob \/ ParseConnectivity \/ DeblobRemoveConverge

Spec == Init /\ [][Next]_vars

\* ------------------------------------------------- the store's state machine
\* A call as recorded: the instance it was made on, the operation, the
\* entity, how it ended, the knowledge returned and the entities
\* SciCrunch.get_knowledge was called with.
Call(op, entity, r) ==
    [ instance |-> store.instance, op |-> op, entity |-> entity, status |-> r.status,
      knowledge |-> r.knowledge, queries |-> r.queries ]

\* The orders in which the set of connectivity terms may be iterated.
TermOrders == Orderings({ "UBERON:0000948", "UBERON:0002078" })

\* KnowledgeStore(...) on the store directory in use; a constructor that
\* raises leaves the instance in use.
Open ==
    /\ store.instance < MaxInstances
    /\ \E c \in Configs :
           \E r \in { KnowledgeStore(store.ks, c.db, c.read_only, c.scicrunch, c.clean) } :
               store' = IF r.status = "ok"
                        THEN [ instance |-> store.instance + 1, ks |-> r.store ]
                        ELSE [ store EXCEPT !.instance = @ + 1 ]
    /\ UNCHANGED << hist, runs, conv, remote, lookups >>

\* store.entity_knowledge(entity)
EntityKnowledge ==
    /\ Len(lookups) < MaxCalls
    /\ \E entity \in Entities \ { "UBERON:0002078" }, order \in TermOrders :
           \E r \in { entity_knowledge(remote, store.ks, entity, order, {}) } :
               /\ store' = [ store EXCEPT !.ks = r.store ]
               /\ lookups' = Append(lookups, Call("entity_knowledge", entity, r))
    /\ UNCHANGED << hist, runs, conv, remote >>

\* store.label(entity)
Label ==
    /\ Len(lookups) < MaxCalls
    /\ \E entity \in Entities \ { "UBERON:0002078" }, order \in TermOrders :
           \E r \in { label(remote, store.ks, entity, order, {}) } :
               /\ store' = [ store EXCEPT !.ks = r.store ]
               /\ lookups' = Append(lookups, Call("label", entity, r))
    /\ UNCHANGED << hist, runs, conv, remote >>

\* store.scicrunch.get_knowledge(entity)
GetKnowledge ==
    /\ Len(lookups) < MaxCalls
    /\ store.ks.scicrunch # "none"
    /\ \E entity \in Entities \ { "UBERON:0002078" } :
           \E r \in { get_knowledge(store.ks.scicrunch = "key", entity, remote[entity]) } :
               /\ store' = [ store EXCEPT
                      !.ks.unknown = IF r.status = "ok" /\ r.knowledge.keys = {}
                                        /\ ~ InSeq(entity, @)
                                     THEN Append(@, entity) ELSE @ ]
               /\ lookups' = Append(lookups, Call("get_knowledge", entity,
                                              [ status |-> r.status, knowledge |-> r.knowledge,
                                                queries |-> << entity >> ]))
    /\ UNCHANGED << hist, runs, conv, remote >>

StoreNext == Open \/ EntityKnowledge \/ Label \/ GetKnowledge

StoreInit ==
    /\ InitWith({ EmptyGraph })
    /\ StoreInitWith(Configs, Worlds)

StoreSpec == StoreInit /\ [][StoreNext]_vars

\* ------------------------------------------------------------------ properties
\* The find_region_layer calls of a run, axon terminals first.
Calls(r) == r.axon_calls \o r.dendrite_calls

\* The anatomical-layer tuples of a run's three lists.
LayerTuples(r) ==
    Range(r.axons) \cup Range(r.dendrites)
        \cup { r.connectivity[k][1] : k \in 1..Len(r.connectivity) }
        \cup { r.connectivity[k][2] : k \in 1..Len(r.connectivity) }

\* The anatomical-layer tuple parse_connectivity builds from one (region, layer)
\* pair of 'terminal-regions'.
TupleOf(pair) == anatomical_layer(<< << pair[2], pair[1] >> >>)

\* Whether a call list holds a length mismatch.
Mismatch(calls) == \E k \in 1..Len(calls) : calls[k].status = "ValueError"

\* The directed paths of edges that carry the predicates of coll in its order.
RECURSIVE ChainPaths(_, _)
ChainPaths(edges, coll) ==
    IF Len(coll) = 1 THEN { << e >> : e \in { x \in Range(edges) : x.pred = coll[1] } }
    ELSE { << ep[1] >> \o ep[2] :
           ep \in { c \in { x \in Range(edges) : x.pred = coll[1] }
                            \X ChainPaths(edges, Tail(coll)) : c[1].obj = c[2][1].sub } }

\* C1: when deblob returns, for each of the six chains and every directed path
\* of raw edges that carries its predicates (the end of a levels edge not the
\* object of a next edge), the normalized edge list holds the edge from the
\* start of the path to its end under the renamed composite predicate, and
\* holds none of the edges of the path.
C1_ChainCollapsed ==
    (Len(hist) >= 2 /\ hist[2].status = "ok") =>
        \A coll \in Range(CollapseChains(getiot(raw.edges))) :
            \A p \in ChainPaths(raw.edges, coll) :
                (\A i \in 1..Len(p) :
                     p[i].pred = levels =>
                         ~ \E k \in 1..Len(raw.edges) :
                               raw.edges[k].pred = next /\ raw.edges[k].obj = p[i].obj)
                => /\ InSeq(Edge(p[1].sub,
                                 RenamePred(JoinPreds(coll), getiot(raw.edges)),
                                 Last(p).obj),
                            hist[2].edges)
                   /\ \A i \in 1..Len(p) : ~ InSeq(PopMeta(p[i]), hist[2].edges)

\* C2: in every run of parse_connectivity, the two ends of every pair of
\* 'connectivity' differ and neither is None.
C2_NoSelfLoops ==
    \A i \in 1..Len(runs) :
        \A k \in 1..Len(runs[i].connectivity) :
            /\ runs[i].connectivity[k][1] # runs[i].connectivity[k][2]
            /\ runs[i].connectivity[k][1] # NoLayer
            /\ runs[i].connectivity[k][2] # NoLayer

\* A run under a lyphs edge whose 'connectivity' holds a pair, and in which a
\* path link joins two nodes with different (layer, region) lists that give
\* the same anatomical-layer tuple.
C2_Witness ==
    \E i \in 1..Len(runs) :
        /\ Len(runs[i].connectivity) > 0
        /\ \E e \in Range(runs[i].edges) : e.pred = lyphs
        /\ \E e \in { x \in Range(runs[i].edges) : x.pred \in { next, next_s } } :
               \E n \in { << layer_regions(runs[i], e.sub).lrs,
                              layer_regions(runs[i], e.obj).lrs >> } :
                   /\ n[1] # n[2] /\ Len(n[1]) > 0 /\ Len(n[2]) > 0
                   /\ anatomical_layer(n[1]) # NoLayer
                   /\ anatomical_layer(n[1]) = anatomical_layer(n[2])

\* C3: in every run of parse_connectivity, no member of EXCLUDED_LAYERS is the
\* primary term or one of the remaining terms of an anatomical-layer tuple of
\* 'axons', 'dendrites' or 'connectivity'.
C3_NoExcludedLayer ==
    \A i \in 1..Len(runs) :
        \A al \in LayerTuples(runs[i]) :
            /\ al # NoLayer
            /\ al[1] \notin EXCLUDED_LAYERS
            /\ \A k \in 1..Len(al[2]) : al[2][k] \notin EXCLUDED_LAYERS

\* A run that resolved a terminal to an excluded term and returned a tuple
\* for another terminal.
C3_Witness ==
    \E i \in 1..Len(runs) :
        /\ runs[i].status = "ok"
        /\ LayerTuples(runs[i]) # {}
        /\ \E k \in 1..Len(Calls(runs[i])) :
               \E j \in 1..Len(Calls(runs[i])[k].pairs) :
                   Calls(runs[i])[k].pairs[j][1] \in EXCLUDED_LAYERS \ { None }

C5_EmptyInput ==
    (raw.edges = <<>> /\ raw.nodes = <<>>) =>
        \A i \in 1..Len(runs) :
            /\ runs[i].status = "ok"
            /\ runs[i].axons = <<>>
            /\ runs[i].dendrites = <<>>
            /\ runs[i].connectivity = <<>>
            /\ runs[i].errors = <<>>

\* The empty graph after a run.
C5_Witness == raw.edges = <<>> /\ raw.nodes = <<>> /\ Len(runs) > 0

\* C6: a run in which a dendrite terminal ended in a length mismatch while
\* every axon terminal resolved, one of them to a tuple that is kept, returns
\* with 'axons' not empty, 'dendrites' empty and a 'find dendrite' entry in
\* 'errors'.
C6_DendriteErrorContained ==
    \A i \in 1..Len(runs) :
        ( /\ Mismatch(runs[i].dendrite_calls)
          /\ \A k \in 1..Len(runs[i].axon_calls) : runs[i].axon_calls[k].status = "ok"
          /\ \E k \in 1..Len(runs[i].axon_calls) :
                 \E j \in 1..Len(runs[i].axon_calls[k].pairs) :
                     TupleOf(runs[i].axon_calls[k].pairs[j]) # NoLayer )
        => /\ runs[i].status = "ok"
           /\ Len(runs[i].axons) > 0
           /\ runs[i].dendrites = <<>>
           /\ InSeq("find dendrite: " \o LenNotMatched, runs[i].errors)

\* A run with a mismatch on a dendrite terminal and a resolved axon terminal.
C6_Witness ==
    \E i \in 1..Len(runs) :
        /\ Mismatch(runs[i].dendrite_calls)
        /\ ~ Mismatch(runs[i].axon_calls)
        /\ Len(runs[i].axons) > 0

\* C7: in every run that returns, 'errors' holds a 'find axon' entry when an
\* axon terminal ended in a length mismatch and a 'find dendrite' entry when a
\* dendrite terminal did.
C7_EveryFailureReported ==
    \A i \in 1..Len(runs) :
        runs[i].status = "ok" =>
            /\ Mismatch(runs[i].axon_calls) =>
                   InSeq("find axon: " \o LenNotMatched, runs[i].errors)
            /\ Mismatch(runs[i].dendrite_calls) =>
                   InSeq("find dendrite: " \o LenNotMatched, runs[i].errors)

\* C8: on the graph (x, inheritedExternal*, axon), (x, topology*, BAG),
\* (x, layerIn, y), (y, ontologyTerms, UBERON:0000948), every id with a node
\* record, 'axons' holds the tuple (UBERON:0000948, ()).
C8_TerminalExample ==
    ( /\ raw.edges = << Edge("x", inheritedExternal_s, axon), Edge("x", topology_s, BAG),
                         Edge("x", layerIn, "y"), Edge("y", ontologyTerms, "UBERON:0000948") >>
      /\ NodeIds(raw.nodes) = { "x", axon, BAG, "y", "UBERON:0000948" } )
    => \A i \in 1..Len(runs) :
           runs[i].status = "ok" /\ InSeq(<< "UBERON:0000948", <<>> >>, runs[i].axons)

\* C9: deblob applied to the graph a deblob call returned leaves the edge
\* list and the node list as they are.
C9_Idempotent ==
    (Len(hist) >= 3 /\ hist[2].status = "ok") =>
        /\ hist[3].status = "ok"
        /\ hist[3].edges = hist[2].edges
        /\ hist[3].nodes = hist[2].nodes

\* C10: two runs of parse_connectivity on the same raw graph give the same
\* normalized edge list and the same 'axons', 'dendrites' and 'connectivity',
\* element by element.
C10_Deterministic ==
    Len(runs) >= 2 =>
        /\ runs[1].edges = runs[2].edges
        /\ runs[1].axons = runs[2].axons
        /\ runs[1].dendrites = runs[2].dendrites
        /\ runs[1].connectivity = runs[2].connectivity

\* The ids that occur as subject or object of an edge.
EdgeIds(edges) ==
    { edges[i].sub : i \in 1..Len(edges) } \cup { edges[i].obj : i \in 1..Len(edges) }

\* C11: when a deblob call returns, the ids of the node list it leaves are the
\* ids that occur as subject or object of an edge of the edge list it leaves.
C11_NodesAreEdgeEnds ==
    \A k \in 2..Len(hist) :
        hist[k].status = "ok" => NodeIds(hist[k].nodes) = EdgeIds(hist[k].edges)

DanglingTopology ==
    \E e \in Range(raw.edges) : e.pred = topology_s /\ e.sub \notin NodeIds(raw.nodes)

\* A terminal of the raw graph that ends in a container whose ontologyTerms
\* edge names a term without a node record.
DanglingRegion ==
    \E t, b, c, r \in Range(raw.edges) :
        /\ t.pred = inheritedExternal_s /\ t.obj \in { axon, dendrite }
        /\ b.sub = t.sub /\ b.pred = topology_s /\ b.obj = BAG
        /\ c.sub = t.sub /\ c.pred = endsIn
        /\ r.sub = c.obj /\ r.pred = ontologyTerms
        /\ r.obj \notin NodeIds(raw.nodes)

\* C13: a run of parse_connectivity on a graph in which a topology* edge
\* leaves an id without a node record, or a terminal resolves to a region term
\* without a node record, returns, with an entry in 'errors'.
C13_UnresolvedInBand ==
    \A i \in 1..Len(runs) :
        (DanglingTopology \/ DanglingRegion) =>
            runs[i].status = "ok" /\ runs[i].errors # <<>>

\* The edges remove-convergent mode is to drop.
IsConvergeEdge(e) == e.pred = topology_s \/ e.obj = axon \/ e.obj = dendrite

\* C14: deblob with remove_converge, on a graph on which deblob returns,
\* returns too, and its edge list is the edge list deblob returns without the
\* topology* edges and without the edges whose object is the axon or the
\* dendrite marker.
C14_RemoveConverge ==
    \A k \in 1..Len(conv) :
        \E d \in { deblob(raw, FALSE) } :
            d.status = "ok" =>
                /\ conv[k].status = "ok"
                /\ \A i \in 1..Len(conv[k].edges) : ~ IsConvergeEdge(conv[k].edges[i])
                /\ conv[k].edges = SelectSeq(d.edges, LAMBDA e : ~ IsConvergeEdge(e))

\* What the service supplies no label for: an answer that is a failure, or
\* data without a label (for a neuron path, data without a node for it).
NoLabelSupplied(response) == response.kind # "json" \/ response.labels = <<>>

\* C15: every call of KnowledgeStore.entity_knowledge(entity) and of
\* KnowledgeStore.label(entity) returns, in every state of the store; the
\* mapping returned has a 'label' key with a value, and on a new store, where
\* the local database supplies no label, the value is the entity id itself
\* when SciCrunch supplies none.
C15_LabelFallback ==
    \A i \in 1..Len(lookups) :
        lookups[i].op \in { "entity_knowledge", "label" }
        => /\ lookups[i].status = "ok"
           /\ "label" \in lookups[i].knowledge.keys
           /\ lookups[i].knowledge.label # None
           /\ (i = 1 /\ lookups[i].instance = 1 /\ NoLabelSupplied(remote[lookups[i].entity]))
              => lookups[i].knowledge.label = lookups[i].entity

\* C16: request_json returns None, and does not raise, on a request
\* exception, on a status other than OK and on a body that is not JSON, and
\* every call of SciCrunch.get_knowledge(entity) answered that way returns
\* empty knowledge.
C16_SourceFailureNonFatal ==
    \A i \in 1..Len(lookups) :
        (lookups[i].op = "get_knowledge" /\ remote[lookups[i].entity].kind # "json")
        => /\ request_json(remote[lookups[i].entity]).status = "ok"
           /\ request_json(remote[lookups[i].entity]).none
           /\ lookups[i].status = "ok"
           /\ lookups[i].knowledge = NoKnowledge

\* The matches in the raw graph that share a conveying lyph edge: << A, L, T,
\* E >> with (A, conveyingLyph, L), (L, topology, T) and (L, iot_predicate, E).
SharedLyphs ==
    { << c.sub, c.obj, t.obj, x.obj >> :
        << c, t, x >> \in
            { m \in { e \in Range(raw.edges) : e.pred = conveyingLyph }
                    \X { e \in Range(raw.edges) : e.pred = topology }
                    \X { e \in Range(raw.edges) : e.pred = getiot(raw.edges) } :
                m[2].sub = m[1].obj /\ m[3].sub = m[1].obj } }

\* C17: an edge marked for removal by an earlier chain is still seen by the
\* later chains: when deblob returns on a graph where (A, conveyingLyph, L)
\* belongs to a match of conveyingLyph-topology and to a match of
\* conveyingLyph-iot_predicate, the result holds both (A, topology*, T) and
\* (A, iot_predicate*, E), and holds no (A, conveyingLyph, L).
C17_DeferredRemoval ==
    (Len(hist) >= 2 /\ hist[2].status = "ok")
    => \A q \in SharedLyphs :
           /\ Edge(q[1], topology_s, q[3]) \in Range(hist[2].edges)
           /\ Edge(q[1], iot_s(getiot(raw.edges)), q[4]) \in Range(hist[2].edges)
           /\ ~ \E e \in Range(hist[2].edges) :
                  e.sub = q[1] /\ e.pred = conveyingLyph /\ e.obj = q[2]

\* deblob has returned on a graph with a shared conveying lyph.
C17_Witness == Len(hist) >= 2 /\ hist[2].status = "ok" /\ SharedLyphs # {}

\* C18: when deblob returns, every synthetic edge of the result (an edge under
\* a renamed composite predicate that the raw graph does not hold) replaces
\* one directed path of edges that simplify was given whose predicates are
\* exactly a collapse chain: it runs from the subject of the first edge of the
\* path to the object of the last; and every edge that simplify removed is an
\* edge of such a path.
C18_SyntheticEndpoints ==
    (Len(hist) >= 2 /\ hist[2].status = "ok") =>
        /\ \A e \in Range(hist[2].edges) :
               (e.pred \in { next_s, topology_s, iot_s(getiot(raw.edges)) }
                /\ ~ \E x \in Range(raw.edges) : PopMeta(x) = e)
               => \E coll \in Range(CollapseChains(getiot(raw.edges))) :
                      /\ RenamePred(JoinPreds(coll), getiot(raw.edges)) = e.pred
                      /\ \E p \in ChainPaths(LevelsFilter(raw.edges), coll) :
                             p[1].sub = e.sub /\ Last(p).obj = e.obj
        /\ \A x \in Range(LevelsFilter(raw.edges)) :
               (x.pred # nextChainStartLevels /\ ~ InSeq(PopMeta(x), hist[2].edges))
               => \E coll \in Range(CollapseChains(getiot(raw.edges))) :
                      \E p \in ChainPaths(LevelsFilter(raw.edges), coll) : InSeq(x, p)

\* The objects of the next edges of the raw graph.
NextObjects == { e.obj : e \in { x \in Range(raw.edges) : x.pred = next } }

\* C19: when deblob returns, a levels edge of the raw graph whose object is
\* the object of a raw next edge is gone and has taken part in no collapse:
\* the result holds no levels edge to that object, and a next* edge to it that
\* the raw graph does not hold comes from a conveys chain that ends there.  A
\* levels edge whose object is the object of no next edge went on to the
\* collapse: it is in the result, or a next* edge to its object is.
C19_LevelsFilteredFirst ==
    (Len(hist) >= 2 /\ hist[2].status = "ok") =>
        /\ \A d \in NextObjects :
               /\ ~ \E e \in Range(hist[2].edges) : e.pred = levels /\ e.obj = d
               /\ \A e \in Range(hist[2].edges) :
                      (e.pred = next_s /\ e.obj = d /\ ~ \E x \in Range(raw.edges) : PopMeta(x) = e)
                      => \E coll \in { <<conveys, source, sourceOf>>, <<conveys, target, sourceOf>> } :
                             \E p \in ChainPaths(raw.edges, coll) : Last(p).obj = d
        /\ \A x \in Range(raw.edges) :
               (x.pred = levels /\ x.obj \notin NextObjects)
               => \E e \in Range(hist[2].edges) :
                      e.obj = x.obj /\ (e = PopMeta(x) \/ e.pred = next_s)

\* deblob has returned on a graph with a path target, rootOf, levels whose end
\* is the object of a next edge, and with no conveys chain to that end.
C19_Witness ==
    /\ Len(hist) >= 2 /\ hist[2].status = "ok"
    /\ \E p \in ChainPaths(raw.edges, <<target, rootOf, levels>>) :
           /\ Last(p).obj \in NextObjects
           /\ \A coll \in { <<conveys, source, sourceOf>>, <<conveys, target, sourceOf>> } :
                  ~ \E q \in ChainPaths(raw.edges, coll) : Last(q).obj = Last(p).obj

\* C20: every run of parse_connectivity returns a result, whatever cycles the
\* edges of the graph form: no run ends in an exception.
C20_ReturnsOnCycles == \A i \in 1..Len(runs) : runs[i].status = "ok"

\* C21: when deblob returns on a raw graph of the inheritedOntologyTerms
\* variant, find_terminals on the normalized graph finds every terminal edge
\* that the collapse of a chain gave: every inheritedOntologyTerms* edge to
\* the axon or dendrite marker whose subject has a topology* edge to BAG.
C21_VariantConsistent ==
    (Len(hist) >= 2 /\ hist[2].status = "ok" /\ getiot(raw.edges) = inheritedOntologyTerms)
    => \A type \in { axon, dendrite } :
           \A e \in Range(hist[2].edges) :
               (/\ e.pred = inheritedOntologyTerms_s
                /\ e.obj = type
                /\ \E t \in Range(hist[2].edges) :
                       t.sub = e.sub /\ t.pred = topology_s /\ t.obj = BAG)
               => InSeq(e, find_terminals([ edges |-> hist[2].edges, nodes |-> hist[2].nodes ],
                                          type))

\* C22: in every run of parse_connectivity that returns, every region and
\* layer of 'axons', 'dendrites' and 'connectivity' is the object of a term
\* edge of the normalized graph, an edge whose predicate is ontologyTerms, a
\* raw inherited predicate or a composite inherited predicate: no edge under
\* another predicate supplies a candidate.
C22_OnlyTermEdges ==
    \A i \in 1..Len(runs) :
        runs[i].status = "ok"
        => (TermsOf(Range(runs[i].connectivity))
              \cup UNION { { a[1] } \cup Range(a[2]) :
                           a \in Range(runs[i].axons) \cup Range(runs[i].dendrites) })
           \subseteq { e.obj : e \in { x \in Range(runs[i].edges) :
                           x.pred \in { ontologyTerms, inheritedExternal, inheritedExternal_s,
                                        inheritedOntologyTerms, inheritedOntologyTerms_s } } }

\* C23: in every run of parse_connectivity that returns, for every node of a
\* next or next* edge under a lyphs edge, no pair (layer, region) of the list
\* Apinatomy.reclr returns for it on the normalized graph has a layer that is
\* a member of EXCLUDED_LAYERS other than None.
C23_ReclrExcludes ==
    \A i \in 1..Len(runs) :
        (runs[i].status = "ok" /\ \E e \in Range(runs[i].edges) : e.pred = lyphs)
        => \A start \in UNION { { e.sub, e.obj } :
                                e \in { x \in Range(runs[i].edges) : x.pred \in { next, next_s } } } :
               \A lr \in Range(reclr([ edges |-> runs[i].edges, nodes |-> runs[i].nodes ],
                                     start).collect) :
                   lr[1] \notin EXCLUDED_LAYERS \ { None }

\* C24: when the walk of find_region_layer from a terminal collects exactly
\* one region and every layer candidate it collects, from ontologyTerms edges
\* or from inherited edges, is a member of EXCLUDED_LAYERS, the call returns
\* [(region, None)] and does not raise the ValueError.
C24_NullLayerFallback ==
    \A i \in 1..Len(runs) :
        (runs[i].status = "ok" /\ getiot(runs[i].edges) # None)
        => \A es \in Range(find_terminals([ edges |-> runs[i].edges, nodes |-> runs[i].nodes ], axon))
                     \cup Range(find_terminals([ edges |-> runs[i].edges, nodes |-> runs[i].nodes ],
                                               dendrite)) :
               \A st \in { frl_select([ edges |-> runs[i].edges, nodes |-> runs[i].nodes ],
                                      getiot(runs[i].edges), es.sub, 1,
                                      [ status |-> "ok", collect |-> <<>>, layers |-> <<>>,
                                        layers_ies |-> <<>>, donel |-> {}, doner |-> {} ],
                                      {es.sub}) } :
                   (/\ st.status = "ok"
                    /\ Len(st.collect) = 1
                    /\ st.layers \o st.layers_ies # <<>>
                    /\ Range(st.layers \o st.layers_ies) \subseteq EXCLUDED_LAYERS)
                   => \E r \in { find_region_layer([ edges |-> runs[i].edges,
                                                      nodes |-> runs[i].nodes ], es) } :
                          r.status = "ok" /\ r.pairs = << << st.collect[1], None >> >>

C26_PathsFromStarts ==
    \A i \in 1..Len(runs) :
        runs[i].status = "ok"
        => \A c \in Range(runs[i].connectivity) :
               \E t \in { e \in Range(runs[i].edges) : e.pred \in { next, next_s } } :
                   /\ c = << anatomical_layer(layer_regions([ edges |-> runs[i].edges,
                                                              nodes |-> runs[i].nodes ], t.sub).lrs),
                             anatomical_layer(layer_regions([ edges |-> runs[i].edges,
                                                              nodes |-> runs[i].nodes ], t.obj).lrs) >>
                   /\ \A X \in SUBSET UNION { { e.sub, e.obj } :
                                               e \in { x \in Range(runs[i].edges) :
                                                         x.pred \in { next, next_s } } } :
                          (/\ \A e \in Range(runs[i].edges) :
                                  /\ (e.pred = lyphs
                                      /\ \E x \in Range(runs[i].edges) :
                                             x.pred \in { next, next_s } /\ e.obj \in { x.sub, x.obj })
                                     => e.obj \in X
                                  /\ (e.pred \in { next, next_s } /\ e.sub \in X) => e.obj \in X)
                          => t.sub \in X

\* C27: the assertion of layer_regions holds on every normalized graph and
\* every node of a next / next* edge, so parse_connectivity never ends in an
\* AssertionError.
C27_AssertionHolds ==
    \A i \in 1..Len(runs) : runs[i].status # "AssertionError"

\* C28: over the entity_knowledge and label calls made on one KnowledgeStore
\* instance, with or without a store directory, SciCrunch.get_knowledge is
\* called at most once per entity: once an entity_knowledge(entity) call has
\* returned, a later call for that entity returns the same knowledge and does
\* not query SciCrunch for it.
C28_LookupCache ==
    \A j \in 1..Len(lookups) :
        \A i \in 1..(j - 1) :
            (/\ lookups[i].instance = lookups[j].instance
             /\ lookups[i].op = "entity_knowledge"
             /\ lookups[j].op \in { "entity_knowledge", "label" }
             /\ lookups[i].status = "ok"
             /\ lookups[j].entity = lookups[i].entity)
            => /\ ~ InSeq(lookups[i].entity, lookups[j].queries)
               /\ lookups[j].op = "entity_knowledge"
                  => (lookups[j].status = "ok" /\ lookups[j].knowledge = lookups[i].knowledge)

====
